---- MODULE Spec2Model ----
(***************************************************************************)
(* Model of src/axum/websocket/src/main.rs: a background publisher that    *)
(* probes a status URI, reads the shared clients_count under the state     *)
(* mutex and sends a JSON snapshot through a tokio watch channel, and one  *)
(* websocket() gateway per connection that registers itself, spawns a      *)
(* send_task and a recv_task, waits in select! for the first of them to    *)
(* finish, aborts the other and deregisters.                               *)
(*                                                                         *)
(* Library semantics used (tokio):                                         *)
(*  - watch::Sender::send fails iff no Receiver exists, else it replaces   *)
(*    the value and bumps the shared version;                              *)
(*  - watch::Receiver::clone copies the version of the receiver cloned;    *)
(*  - Receiver::changed is ready iff the receiver's version differs from   *)
(*    the shared one (it then adopts the shared version), fails when the   *)
(*    sender is gone, and is pending otherwise;                            *)
(*  - Receiver::borrow reads the current value, and marks nothing seen;    *)
(*  - JoinHandle::abort cancels a task at its next suspension: a task that *)
(*    is suspended is dropped, a task in the middle of a poll goes on      *)
(*    until an await of it returns Pending, a finished task is untouched.  *)
(***************************************************************************)
EXTENDS Integers, FiniteSets, Sequences, TLC

\* ---------------------------------------------------------------- bounds
NConn == 2
MaxPublishes == 2

Conns == 1..NConn

\* The version of a fresh watch channel, which State.rx keeps for ever:
\* nothing calls changed() or borrow_and_update() on the stored receiver.
InitialVersion == 0

\* Message::Text("{}"), the value the channel is created with. A message
\* carries seq, the index of the send that produced it (the stand-in for
\* dateTime, which makes every snapshot distinct); seq 0 is the placeholder.
Placeholder == [seq |-> 0, clients_count |-> 0, is_up |-> FALSE]

\* The kinds of ws::Message a client can send, and the two other outcomes
\* of receiver.next(): the stream's end (None) and a read error (Some(Err)).
MessageKinds == {"Text", "Binary", "Ping", "Pong", "Close"}
ReadOutcomes == MessageKinds \cup {"End", "Err"}

\* Task positions that are suspended (between polls) and positions that are
\* inside a poll.
SendSuspended == {"start", "changed_wait", "write_wait"}
SendRunning == {"changed", "borrow", "write"}
RecvSuspended == {"read_wait"}
RecvRunning == {"read"}
Stopped == {"done", "aborted"}

\* Owners of the Mutex<State>: nobody, the publisher task, websocket() of c.
Free == <<"free", 0>>
PubOwner == <<"pub", 0>>
ConnOwner(c) == <<"conn", c>>

VARIABLES
    clients_count,  \* State.clients_count
    lock,           \* owner of the Mutex<State>: Free, PubOwner or ConnOwner(c)
    txVer,          \* shared version of the watch channel (number of sends)
    chanVal,        \* current value of the watch channel
    pubPc,          \* publisher: "probe", "lock", "read", "send", "sleep", "stopped"
    is_up,          \* publisher local is_up
    resp,           \* publisher local response, the value of clients_count read
    slept,          \* history: sleep(duration) has elapsed since the last send
                    \*   (since the start of the task, before the first send)
    gw,             \* websocket(): "idle", "lock_reg", "reg", "select",
                    \*   "lock_dereg", "dereg", "closed"
    st,             \* send_task position
    rt,             \* recv_task position
    cur,            \* version of the connection's rx
    msg,            \* send_task local msg, Placeholder once moved into send
    abortReq,       \* abort requested on a task that was inside a poll
    lastW,          \* history of the live sender: seq of the last message
                    \*   written to the client, 0 before the first
    subVer,         \* history of the live rx: shared version when it was
                    \*   cloned, kept until its first message is written
    nReg,           \* history: number of increments by the connection
    nDereg          \* history: number of decrements by the connection

pubVars == <<pubPc, is_up, resp, slept>>
chanVars == <<txVer, chanVal>>
connVars == <<gw, st, rt, cur, msg, abortReq, lastW, subVer, nReg, nDereg>>
vars == <<clients_count, lock, txVer, chanVal, pubPc, is_up, resp, slept,
          gw, st, rt, cur, msg, abortReq, lastW, subVer, nReg, nDereg>>

\* Mutant of Init: the publisher's loop begins with its sleep.
Init_SleepFirst ==
    /\ clients_count = 0
    /\ lock = Free
    /\ txVer = InitialVersion
    /\ chanVal = Placeholder
    /\ pubPc = "probe"
    /\ is_up = FALSE
    /\ resp = 0
    /\ slept = TRUE
    /\ gw = [c \in Conns |-> "idle"]
    /\ st = [c \in Conns |-> "none"]
    /\ rt = [c \in Conns |-> "none"]
    /\ cur = [c \in Conns |-> InitialVersion]
    /\ msg = [c \in Conns |-> Placeholder]
    /\ abortReq = [c \in Conns |-> "none"]
    /\ lastW = [c \in Conns |-> 0]
    /\ subVer = [c \in Conns |-> 0]
    /\ nReg = [c \in Conns |-> 0]
    /\ nDereg = [c \in Conns |-> 0]

Init ==
    /\ clients_count = 0
    /\ lock = Free
    /\ txVer = InitialVersion
    /\ chanVal = Placeholder
    /\ pubPc = "probe"
    /\ is_up = FALSE
    /\ resp = 0
    /\ slept = FALSE
    /\ gw = [c \in Conns |-> "idle"]
    /\ st = [c \in Conns |-> "none"]
    /\ rt = [c \in Conns |-> "none"]
    /\ cur = [c \in Conns |-> InitialVersion]
    /\ msg = [c \in Conns |-> Placeholder]
    /\ abortReq = [c \in Conns |-> "none"]
    /\ lastW = [c \in Conns |-> 0]
    /\ subVer = [c \in Conns |-> 0]
    /\ nReg = [c \in Conns |-> 0]
    /\ nDereg = [c \in Conns |-> 0]

\* Mutant of RxCount: the receiver stored in State is dropped after set-up,
\* leaving only the clones of the send_tasks.
RxCount_ClientsOnly == Cardinality({c \in Conns : st[c] \in SendSuspended \cup SendRunning})

\* Number of live receivers of the channel: State.rx, which the publisher
\* task itself keeps alive through state_send, and one clone per send_task
\* that has not ended.
RxCount == 1 + Cardinality({c \in Conns : st[c] \in SendSuspended \cup SendRunning})

\* -------------------------------------------------------------- publisher

\* Mutant of PubProbe: the probe's error is propagated (as with `?` or
\* unwrap) and ends the publisher task.
PubProbe_FailStops(ok) ==
    /\ pubPc = "probe"
    /\ is_up' = ok
    /\ pubPc' = IF ok THEN "lock" ELSE "stopped"
    /\ UNCHANGED <<clients_count, lock, chanVars, resp, slept, connVars>>

\* client.get(uri).await completes; is_up = is_up.is_ok().
PubProbe(ok) ==
    /\ pubPc = "probe"
    /\ is_up' = ok
    /\ pubPc' = "lock"
    /\ UNCHANGED <<clients_count, lock, chanVars, resp, slept, connVars>>

\* state_send.lock().await is granted.
PubAcquire ==
    /\ pubPc = "lock"
    /\ lock = Free
    /\ lock' = PubOwner
    /\ pubPc' = "read"
    /\ UNCHANGED <<clients_count, chanVars, is_up, resp, slept, connVars>>

\* Mutant of PubRead: the guard is bound to a local and lives through the
\* send and the sleep that follow.
PubRead_KeepsLock ==
    /\ pubPc = "read"
    /\ lock = PubOwner
    /\ resp' = clients_count
    /\ lock' = lock
    /\ pubPc' = "send"
    /\ UNCHANGED <<clients_count, chanVars, is_up, slept, connVars>>

\* Mutant of PubRead: the Response counts the channel's receivers, the one
\* stored in State included, instead of reading clients_count.
PubRead_CountsReceivers ==
    /\ pubPc = "read"
    /\ lock = PubOwner
    /\ resp' = RxCount
    /\ lock' = Free
    /\ pubPc' = "send"
    /\ UNCHANGED <<clients_count, chanVars, is_up, slept, connVars>>

\* Mutant of PubRead: the Response is built without reading clients_count.
PubRead_Unread ==
    /\ pubPc = "read"
    /\ lock = PubOwner
    /\ resp' = resp
    /\ lock' = Free
    /\ pubPc' = "send"
    /\ UNCHANGED <<clients_count, chanVars, is_up, slept, connVars>>

\* The Response is built from clients_count and the guard is dropped.
PubRead ==
    /\ pubPc = "read"
    /\ lock = PubOwner
    /\ resp' = clients_count
    /\ lock' = Free
    /\ pubPc' = "send"
    /\ UNCHANGED <<clients_count, chanVars, is_up, slept, connVars>>

\* Mutant of PubSend: a one-slot queue that keeps a value some live
\* receiver has not seen yet and drops the new one.
PubSend_KeepsUnread ==
    /\ pubPc = "send"
    /\ txVer' = txVer + 1
    /\ chanVal' = IF \E c \in Conns : st[c] \in SendSuspended \cup SendRunning /\ cur[c] # txVer
                    THEN chanVal
                    ELSE [seq |-> txVer + 1, clients_count |-> resp, is_up |-> is_up]
    /\ pubPc' = "sleep"
    /\ is_up' = FALSE
    /\ resp' = 0
    /\ slept' = FALSE
    /\ UNCHANGED <<clients_count, lock, connVars>>

\* Mutant of PubSend: a rendezvous send, which waits until no receiver is
\* still busy with the previous value.
PubSend_Rendezvous ==
    /\ pubPc = "send"
    /\ \A c \in Conns : st[c] \notin {"borrow", "write", "write_wait"}
    /\ txVer' = txVer + 1
    /\ chanVal' = [seq |-> txVer + 1, clients_count |-> resp, is_up |-> is_up]
    /\ pubPc' = "sleep"
    /\ is_up' = FALSE
    /\ resp' = 0
    /\ slept' = FALSE
    /\ UNCHANGED <<clients_count, lock, connVars>>

\* Mutant of PubSend: the loop also breaks when the count it read is zero.
PubSend_StopsWithoutClients ==
    /\ pubPc = "send"
    /\ IF RxCount = 0 \/ resp = 0
         THEN /\ pubPc' = "stopped"
              /\ UNCHANGED chanVars
         ELSE /\ txVer' = txVer + 1
              /\ chanVal' = [seq |-> txVer + 1, clients_count |-> resp, is_up |-> is_up]
              /\ pubPc' = "sleep"
    /\ is_up' = FALSE
    /\ resp' = 0
    /\ slept' = FALSE
    /\ UNCHANGED <<clients_count, lock, connVars>>

\* serde_json::to_string, then tx.send(Message::Text(msg)): an error (no
\* receiver) breaks the loop, which drops tx. The locals is_up and response
\* are moved into the message and are not read again.
PubSend ==
    /\ pubPc = "send"
    /\ IF RxCount = 0
         THEN /\ pubPc' = "stopped"
              /\ UNCHANGED chanVars
         ELSE /\ txVer' = txVer + 1
              /\ chanVal' = [seq |-> txVer + 1, clients_count |-> resp, is_up |-> is_up]
              /\ pubPc' = "sleep"
    /\ is_up' = FALSE
    /\ resp' = 0
    /\ slept' = FALSE
    /\ UNCHANGED <<clients_count, lock, connVars>>

\* sleep(duration).await elapses and the loop starts over.
PubSleep ==
    /\ pubPc = "sleep"
    /\ txVer < MaxPublishes
    /\ pubPc' = "probe"
    /\ slept' = TRUE
    /\ UNCHANGED <<clients_count, lock, chanVars, is_up, resp, connVars>>

\* ---------------------------------------------------------------- gateway

\* on_upgrade calls websocket(socket, state); the stream is split and the
\* function waits for the state mutex.
Connect(c) ==
    /\ gw[c] = "idle"
    /\ gw' = [gw EXCEPT ![c] = "lock_reg"]
    /\ UNCHANGED <<clients_count, lock, chanVars, pubVars,
                   st, rt, cur, msg, abortReq, lastW, subVer, nReg, nDereg>>

\* state.lock().await is granted to websocket() for the registration.
AcquireReg(c) ==
    /\ gw[c] = "lock_reg"
    /\ lock = Free
    /\ lock' = ConnOwner(c)
    /\ gw' = [gw EXCEPT ![c] = "reg"]
    /\ UNCHANGED <<clients_count, chanVars, pubVars,
                   st, rt, cur, msg, abortReq, lastW, subVer, nReg, nDereg>>

\* Mutant of Register: the increment is forgotten.
Register_NoIncrement(c) ==
    /\ gw[c] = "reg"
    /\ lock = ConnOwner(c)
    /\ cur' = [cur EXCEPT ![c] = InitialVersion]
    /\ subVer' = [subVer EXCEPT ![c] = txVer]
    /\ nReg' = [nReg EXCEPT ![c] = @ + 1]
    /\ lock' = Free
    /\ st' = [st EXCEPT ![c] = "start"]
    /\ rt' = [rt EXCEPT ![c] = "read_wait"]
    /\ gw' = [gw EXCEPT ![c] = "select"]
    /\ UNCHANGED <<clients_count, chanVars, pubVars, msg, abortReq, lastW, nDereg>>

\* Mutant of Register: the receiver comes from tx.subscribe(), which starts
\* at the current version, instead of from a clone of the stored receiver.
Register_Subscribe(c) ==
    /\ gw[c] = "reg"
    /\ lock = ConnOwner(c)
    /\ clients_count' = clients_count + 1
    /\ cur' = [cur EXCEPT ![c] = txVer]
    /\ subVer' = [subVer EXCEPT ![c] = txVer]
    /\ nReg' = [nReg EXCEPT ![c] = @ + 1]
    /\ lock' = Free
    /\ st' = [st EXCEPT ![c] = "start"]
    /\ rt' = [rt EXCEPT ![c] = "read_wait"]
    /\ gw' = [gw EXCEPT ![c] = "select"]
    /\ UNCHANGED <<chanVars, pubVars, msg, abortReq, lastW, nDereg>>

\* clients_count += 1; state.rx.clone(); the guard is dropped; both tasks
\* are spawned and websocket() reaches select!.
Register(c) ==
    /\ gw[c] = "reg"
    /\ lock = ConnOwner(c)
    /\ clients_count' = clients_count + 1
    /\ cur' = [cur EXCEPT ![c] = InitialVersion]
    /\ subVer' = [subVer EXCEPT ![c] = txVer]
    /\ nReg' = [nReg EXCEPT ![c] = @ + 1]
    /\ lock' = Free
    /\ st' = [st EXCEPT ![c] = "start"]
    /\ rt' = [rt EXCEPT ![c] = "read_wait"]
    /\ gw' = [gw EXCEPT ![c] = "select"]
    /\ UNCHANGED <<chanVars, pubVars, msg, abortReq, lastW, nDereg>>

\* The send_task of c moves to position p with receiver version v, local
\* msg m and histories w, s. A task that ends drops its rx, its msg and its
\* sender, and the histories of these with them.
SetSend(c, p, v, m, w, s) ==
    /\ st' = [st EXCEPT ![c] = p]
    /\ cur' = [cur EXCEPT ![c] = IF p \in Stopped THEN InitialVersion ELSE v]
    /\ msg' = [msg EXCEPT ![c] = IF p \in Stopped THEN Placeholder ELSE m]
    /\ lastW' = [lastW EXCEPT ![c] = IF p \in Stopped THEN 0 ELSE w]
    /\ subVer' = [subVer EXCEPT ![c] = IF p \in Stopped THEN 0 ELSE s]

\* Mutant of AfterAbort: abort() leaves a suspended task where it waits.
AfterAbort_LeavesWaiting(p, suspended) == p

\* JoinHandle::abort on a task at position p of the given kind: a suspended
\* task is dropped at once, a task inside a poll only gets the request.
AfterAbort(p, suspended) == IF p \in suspended THEN "aborted" ELSE p

\* Mutant of SelectSend: the branch forgets recv_task.abort().
SelectSend_NoAbort(c) ==
    /\ gw[c] = "select"
    /\ st[c] = "done"
    /\ gw' = [gw EXCEPT ![c] = "lock_dereg"]
    /\ UNCHANGED <<clients_count, lock, chanVars, pubVars,
                   st, rt, cur, msg, abortReq, lastW, subVer, nReg, nDereg>>

\* Mutant of SelectSend: the branch decrements the registry itself, and the
\* statement after select! decrements it again.
SelectSend_Decrements(c) ==
    /\ gw[c] = "select"
    /\ st[c] = "done"
    /\ rt' = [rt EXCEPT ![c] = AfterAbort(@, RecvSuspended)]
    /\ abortReq' = [abortReq EXCEPT ![c] = IF rt[c] \in RecvRunning THEN "recv" ELSE @]
    /\ clients_count' = clients_count - 1
    /\ nDereg' = [nDereg EXCEPT ![c] = @ + 1]
    /\ gw' = [gw EXCEPT ![c] = "lock_dereg"]
    /\ UNCHANGED <<lock, chanVars, pubVars, st, cur, msg, lastW, subVer, nReg>>

\* select! sees send_task finished: recv_task.abort().
SelectSend(c) ==
    /\ gw[c] = "select"
    /\ st[c] = "done"
    /\ rt' = [rt EXCEPT ![c] = AfterAbort(@, RecvSuspended)]
    /\ abortReq' = [abortReq EXCEPT ![c] = IF rt[c] \in RecvRunning THEN "recv" ELSE @]
    /\ gw' = [gw EXCEPT ![c] = "lock_dereg"]
    /\ UNCHANGED <<clients_count, lock, chanVars, pubVars,
                   st, cur, msg, lastW, subVer, nReg, nDereg>>

\* Mutant of SelectRecv: the abort reaches the send_task of every
\* connection, as with one abort handle shared by all of them.
SelectRecv_AbortsAll(c) ==
    /\ gw[c] = "select"
    /\ rt[c] = "done"
    /\ LET p == [d \in Conns |-> AfterAbort(st[d], SendSuspended)]
       IN /\ st' = p
          /\ cur' = [d \in Conns |-> IF p[d] \in Stopped THEN InitialVersion ELSE cur[d]]
          /\ msg' = [d \in Conns |-> IF p[d] \in Stopped THEN Placeholder ELSE msg[d]]
          /\ lastW' = [d \in Conns |-> IF p[d] \in Stopped THEN 0 ELSE lastW[d]]
          /\ subVer' = [d \in Conns |-> IF p[d] \in Stopped THEN 0 ELSE subVer[d]]
    /\ abortReq' = [d \in Conns |-> IF st[d] \in SendRunning THEN "send" ELSE abortReq[d]]
    /\ gw' = [gw EXCEPT ![c] = "lock_dereg"]
    /\ UNCHANGED <<clients_count, lock, chanVars, pubVars, rt, nReg, nDereg>>

\* select! sees recv_task finished: send_task.abort().
SelectRecv(c) ==
    /\ gw[c] = "select"
    /\ rt[c] = "done"
    /\ SetSend(c, AfterAbort(st[c], SendSuspended), cur[c], msg[c], lastW[c], subVer[c])
    /\ abortReq' = [abortReq EXCEPT ![c] = IF st[c] \in SendRunning THEN "send" ELSE @]
    /\ gw' = [gw EXCEPT ![c] = "lock_dereg"]
    /\ UNCHANGED <<clients_count, lock, chanVars, pubVars, rt, nReg, nDereg>>

\* state.lock().await is granted to websocket() for the deregistration.
AcquireDereg(c) ==
    /\ gw[c] = "lock_dereg"
    /\ lock = Free
    /\ lock' = ConnOwner(c)
    /\ gw' = [gw EXCEPT ![c] = "dereg"]
    /\ UNCHANGED <<clients_count, chanVars, pubVars,
                   st, rt, cur, msg, abortReq, lastW, subVer, nReg, nDereg>>

\* clients_count -= 1; the guard is dropped and websocket() returns.
Deregister(c) ==
    /\ gw[c] = "dereg"
    /\ lock = ConnOwner(c)
    /\ clients_count' = clients_count - 1
    /\ nDereg' = [nDereg EXCEPT ![c] = @ + 1]
    /\ lock' = Free
    /\ gw' = [gw EXCEPT ![c] = "closed"]
    /\ UNCHANGED <<chanVars, pubVars, st, rt, cur, msg, abortReq, lastW, subVer, nReg>>

\* -------------------------------------------------------------- send_task

\* Position of a task whose await returned Pending: it is suspended, or
\* dropped when an abort was requested during the poll.
Suspend(c, kind, waiting) == IF abortReq[c] = kind THEN "aborted" ELSE waiting

\* The abort request on a task is spent once the task has ended.
ClearAbort(c, p) == abortReq' = [abortReq EXCEPT ![c] = IF p \in Stopped THEN "none" ELSE @]

\* Mutant of SendStart: the loop reads the channel before it waits for a change.
SendStart_BorrowsFirst(c) ==
    /\ st[c] = "start"
    /\ st' = [st EXCEPT ![c] = "borrow"]
    /\ UNCHANGED <<clients_count, lock, chanVars, pubVars,
                   gw, rt, cur, msg, abortReq, lastW, subVer, nReg, nDereg>>

\* The runtime polls the spawned send_task for the first time.
SendStart(c) ==
    /\ st[c] = "start"
    /\ st' = [st EXCEPT ![c] = "changed"]
    /\ UNCHANGED <<clients_count, lock, chanVars, pubVars,
                   gw, rt, cur, msg, abortReq, lastW, subVer, nReg, nDereg>>

\* Mutant of SendChanged: a closed channel is not reported; the call pends.
SendChanged_IgnoresClose(c) ==
    /\ st[c] = "changed"
    /\ LET p == IF cur[c] # txVer THEN "borrow"
                ELSE Suspend(c, "send", "changed_wait")
       IN /\ SetSend(c, p, txVer, msg[c], lastW[c], subVer[c])
          /\ ClearAbort(c, p)
    /\ UNCHANGED <<clients_count, lock, chanVars, pubVars, gw, rt, nReg, nDereg>>

\* rx.changed().await is polled: Ok(()) when the shared version differs from
\* the receiver's, which adopts it; Err when the sender is gone; else Pending.
SendChanged(c) ==
    /\ st[c] = "changed"
    /\ LET p == IF cur[c] # txVer THEN "borrow"
                ELSE IF pubPc = "stopped" THEN "done"
                ELSE Suspend(c, "send", "changed_wait")
       IN /\ SetSend(c, p, txVer, msg[c], lastW[c], subVer[c])
          /\ ClearAbort(c, p)
    /\ UNCHANGED <<clients_count, lock, chanVars, pubVars, gw, rt, nReg, nDereg>>

\* Mutant of SendWake: a send wakes no receiver; only the sender's drop does.
SendWake_OnlyOnClose(c) ==
    /\ st[c] = "changed_wait"
    /\ pubPc = "stopped"
    /\ st' = [st EXCEPT ![c] = "changed"]
    /\ UNCHANGED <<clients_count, lock, chanVars, pubVars,
                   gw, rt, cur, msg, abortReq, lastW, subVer, nReg, nDereg>>

\* The watch channel notifies the suspended receiver, whose task is polled again.
SendWake(c) ==
    /\ st[c] = "changed_wait"
    /\ cur[c] # txVer \/ pubPc = "stopped"
    /\ st' = [st EXCEPT ![c] = "changed"]
    /\ UNCHANGED <<clients_count, lock, chanVars, pubVars,
                   gw, rt, cur, msg, abortReq, lastW, subVer, nReg, nDereg>>

\* let msg = rx.borrow().clone();
SendBorrow(c) ==
    /\ st[c] = "borrow"
    /\ msg' = [msg EXCEPT ![c] = chanVal]
    /\ st' = [st EXCEPT ![c] = "write"]
    /\ UNCHANGED <<clients_count, lock, chanVars, pubVars,
                   gw, rt, cur, abortReq, lastW, subVer, nReg, nDereg>>

\* sender.send(msg).await: the write completes (the loop goes on), fails (the
\* loop breaks) or, on its first poll, is Pending (the client is slow).
SendWrite(c, r) ==
    /\ st[c] \in {"write", "write_wait"}
    /\ r = "pending" => st[c] = "write"
    /\ LET p == CASE r = "ok" -> "changed"
                  [] r = "err" -> "done"
                  [] OTHER -> Suspend(c, "send", "write_wait")
       IN /\ IF r = "ok"
               THEN SetSend(c, p, cur[c], Placeholder, msg[c].seq, 0)
               ELSE SetSend(c, p, cur[c], msg[c], lastW[c], subVer[c])
          /\ ClearAbort(c, p)
    /\ UNCHANGED <<clients_count, lock, chanVars, pubVars, gw, rt, nReg, nDereg>>

\* -------------------------------------------------------------- recv_task

\* Whether the while-let pattern Some(Ok(Message::Text(text))) matches.
MatchesText(o) == o = "Text"

\* receiver.next().await is polled and yields outcome o, or is Pending: the
\* loop goes on while the pattern matches and ends otherwise.
RecvRead(c, o) ==
    /\ rt[c] = "read"
    /\ LET p == CASE o = "Pending" -> Suspend(c, "recv", "read_wait")
                  [] MatchesText(o) -> "read"
                  [] OTHER -> "done"
       IN /\ rt' = [rt EXCEPT ![c] = p]
          /\ ClearAbort(c, p)
    /\ UNCHANGED <<clients_count, lock, chanVars, pubVars,
                   gw, st, cur, msg, lastW, subVer, nReg, nDereg>>

\* The runtime polls the suspended recv_task: for the first time after the
\* spawn, or because input arrived on the socket.
RecvWake(c) ==
    /\ rt[c] = "read_wait"
    /\ rt' = [rt EXCEPT ![c] = "read"]
    /\ UNCHANGED <<clients_count, lock, chanVars, pubVars,
                   gw, st, cur, msg, abortReq, lastW, subVer, nReg, nDereg>>

\* ------------------------------------------------------------ specification

PubNext ==
    \/ \E ok \in BOOLEAN : PubProbe(ok)
    \/ PubAcquire
    \/ PubRead
    \/ PubSend
    \/ PubSleep

ConnNext(c) ==
    \/ Connect(c)
    \/ AcquireReg(c)
    \/ Register(c)
    \/ SelectSend(c)
    \/ SelectRecv(c)
    \/ AcquireDereg(c)
    \/ Deregister(c)
    \/ SendStart(c)
    \/ SendChanged(c)
    \/ SendWake(c)
    \/ SendBorrow(c)
    \/ \E r \in {"ok", "err", "pending"} : SendWrite(c, r)
    \/ \E o \in ReadOutcomes \cup {"Pending"} : RecvRead(c, o)
    \/ RecvWake(c)

Next == PubNext \/ \E c \in Conns : ConnNext(c)

Spec == Init /\ [][Next]_vars

\* Scheduling the tokio runtime guarantees: a task inside a poll runs on to
\* its next await, select! and the statements after it run once their input
\* is ready, and the fair (FIFO) Mutex grants every request once the lock
\* is released. Nothing is assumed of the client, of the network or of the
\* publisher's timer and probe.
SendPoll(c) == SendChanged(c) \/ SendBorrow(c) \/ (st[c] = "write" /\ \E r \in {"ok", "err", "pending"} : SendWrite(c, r))
RecvPoll(c) == \E o \in ReadOutcomes \cup {"Pending"} : RecvRead(c, o)

Fairness ==
    /\ WF_vars(PubRead)
    /\ \A c \in Conns :
          /\ WF_vars(Register(c))
          /\ WF_vars(SelectSend(c))
          /\ WF_vars(SelectRecv(c))
          /\ SF_vars(AcquireDereg(c))
          /\ WF_vars(Deregister(c))
          /\ WF_vars(SendPoll(c))
          /\ WF_vars(RecvPoll(c))

\* One connection beside the publisher, for the claims about a single
\* connection.
PairNext == PubNext \/ ConnNext(CHOOSE c \in Conns : TRUE)

PairSpec == Init /\ [][PairNext]_vars /\ Fairness

\* The further scheduling a delivery relies on: a spawned send_task is polled
\* for the first time, a notified send_task is polled again, and a write to
\* the client that is attempted again and again completes or fails.
WriteCompletes(c) == SendWrite(c, "ok") \/ SendWrite(c, "err")

SendFairness(c) ==
    /\ WF_vars(SendStart(c))
    /\ WF_vars(SendWake(c))
    /\ SF_vars(WriteCompletes(c))

DeliveryFairness == \A c \in Conns : SendFairness(c)

DeliverySpec == Init /\ [][PairNext]_vars /\ Fairness /\ DeliveryFairness

\* A publisher that keeps cycling: its probe returns, its lock request is
\* granted and its timer fires.
PubFairness ==
    /\ WF_vars(\E ok \in BOOLEAN : PubProbe(ok))
    /\ WF_vars(PubAcquire)
    /\ WF_vars(PubSend)
    /\ WF_vars(PubSleep)

\* A connection seen only through the registry: every step of websocket()
\* and of its recv_task, its send_task not being polled before it is
\* aborted. The steps of a send_task touch nothing but that task's locals.
PeerNext(c) ==
    \/ Connect(c)
    \/ AcquireReg(c)
    \/ Register(c)
    \/ SelectRecv(c)
    \/ AcquireDereg(c)
    \/ Deregister(c)
    \/ \E o \in ReadOutcomes \cup {"Pending"} : RecvRead(c, o)
    \/ RecvWake(c)

\* One connection observed in full beside the publisher, the others as peers.
Observed == CHOOSE c \in Conns : TRUE

StableNext ==
    \/ PubNext
    \/ ConnNext(Observed)
    \/ \E c \in Conns \ {Observed} : PeerNext(c)

StableSpec ==
    Init /\ [][StableNext]_vars /\ Fairness /\ SendFairness(Observed) /\ PubFairness

\* HttpsConnector::new() panics when the TLS backend cannot be set up: the
\* publisher task ends before its first probe and tx is dropped with it,
\* which closes the channel for every receiver.
PubPanic ==
    /\ pubPc = "probe"
    /\ txVer = InitialVersion
    /\ ~slept
    /\ pubPc' = "stopped"
    /\ UNCHANGED <<clients_count, lock, chanVars, is_up, resp, slept, connVars>>

\* The program with a publisher task that may fail in its set-up.
ClosedNext == PubPanic \/ PairNext

ClosedSpec ==
    Init /\ [][ClosedNext]_vars /\ Fairness /\ SendFairness(Observed)

\* tokio's Mutex is fair: a request that can be granted again and again is
\* granted.
LockFairness ==
    /\ SF_vars(PubAcquire)
    /\ \A c \in Conns : SF_vars(AcquireReg(c))

LockSpec == Init /\ [][StableNext]_vars /\ Fairness /\ LockFairness

\* ------------------------------------------------------------------ claims

\* Connections whose increment has happened and whose decrement has not.
Registered == {c \in Conns : nReg[c] > nDereg[c]}

\* C1: clients_count is never negative and equals the number of connections
\* between their registration increment and their deregistration decrement;
\* once every connection has closed it is 0.
RegistryAccurate ==
    /\ clients_count >= 0
    /\ clients_count = Cardinality(Registered)
    /\ (\A c \in Conns : gw[c] \in {"idle", "closed"}) => clients_count = 0

\* C1 witness: both connections registered and deregistered.
AllClosed == \A c \in Conns : gw[c] = "closed" /\ nReg[c] = 1

\* C2: every connection decrements the registry exactly once per
\* registration: never before its increment, never a second time, and the
\* decrement has happened when websocket() returns, whichever loop ended.
DecrementExactlyOnce ==
    \A c \in Conns :
        /\ nDereg[c] <= nReg[c]
        /\ nReg[c] <= 1
        /\ gw[c] = "closed" <=> (nReg[c] = 1 /\ nDereg[c] = 1)

\* C2 witness: a connection closed after both of its loops had terminated
\* by themselves, before select! acted on either.
ClosedAfterBothDone ==
    \E c \in Conns : gw[c] = "closed" /\ st[c] = "done" /\ rt[c] = "done" /\ nDereg[c] = 1

\* C3: once one loop of a connection has terminated, the connection
\* eventually is closed (its decrement done) with both loops stopped, also
\* when the other loop is blocked for ever.
PairedCancellation ==
    \A c \in Conns :
        (gw[c] = "select" /\ (st[c] = "done" \/ rt[c] = "done"))
            ~> (gw[c] = "closed" /\ st[c] \in Stopped /\ rt[c] \in Stopped)

\* C3 witness: the outbound write failed while the inbound read was blocked;
\* the inbound loop was cancelled and the connection closed.
CancelledWhileBlocked ==
    \E c \in Conns : gw[c] = "closed" /\ st[c] = "done" /\ rt[c] = "aborted" /\ nDereg[c] = 1

\* C4 (as claimed): every message a send_task writes is newer than the one
\* it wrote before, so no snapshot is written twice to the same client.
StrictlyIncreasingWrites ==
    [][\A c \in Conns : SendWrite(c, "ok") => msg[c].seq > lastW[c]]_vars

\* C5: the value a send_task borrows is the last one published at that
\* moment, however many publishes it missed, and never one older than the
\* version its changed() returned for; the channel holds that value alone.
LatestWins ==
    /\ [](chanVal.seq = txVer)
    /\ [][\A c \in Conns :
            SendBorrow(c) => (msg'[c].seq = txVer /\ msg'[c].seq >= cur[c])]_vars

\* C5 witness: two publishes happened while a subscriber that had not yet
\* polled was registered; it holds the second and never wrote the first.
SkippedToLatest ==
    \E c \in Conns : st[c] = "write" /\ msg[c].seq = 2 /\ lastW[c] = 0 /\ subVer[c] = 0

\* C6 (as claimed): the cursor of a new connection is the current version,
\* and no snapshot published before the subscription is written to it.
SubscribeAtCurrentVersion ==
    [][\A c \in Conns :
          /\ Register(c) => cur'[c] = txVer
          /\ SendWrite(c, "ok") => msg[c].seq > subVer[c]]_vars

\* C6 (amended): the cursor of a new connection is the stored receiver's
\* version, the initial one; a connection is suspended in changed() before
\* its first write only if nothing had been published when it subscribed,
\* and what it reads is never older than the value current at subscription.
SubscribeAtInitialVersion ==
    /\ [][\A c \in Conns :
            /\ Register(c) => cur'[c] = InitialVersion
            /\ SendBorrow(c) => msg'[c].seq >= subVer[c]]_vars
    /\ [](\A c \in Conns : st[c] = "changed_wait" => cur[c] >= subVer[c])

\* C6 witness: a connection that subscribed after a publish, about to write
\* as its first message the snapshot published before it subscribed.
SentEarlierSnapshot ==
    \E c \in Conns :
        st[c] = "write" /\ subVer[c] >= 1 /\ msg[c].seq = subVer[c] /\ lastW[c] = 0

\* C7 (as claimed): no message of a client, of whatever kind, ends the
\* inbound loop.
DrainAcceptsEveryKind ==
    [][\A c \in Conns : \A k \in MessageKinds \ {"Close"} :
          RecvRead(c, k) => rt'[c] # "done"]_vars

\* C8: while a connection is stalled in a client write, it does not hold
\* the state lock, every step of the publisher that is due can be taken,
\* and so can every step of every other connection's send_task.
SlowSubscriberBlocksNobody ==
    \A c \in Conns :
        st[c] = "write_wait" =>
            /\ lock # ConnOwner(c)
            /\ pubPc = "send" => ENABLED PubSend
            /\ pubPc = "read" => ENABLED PubRead
            /\ pubPc = "probe" => ENABLED PubProbe(TRUE)
            /\ (pubPc = "lock" /\ lock = Free) => ENABLED PubAcquire
            /\ \A d \in Conns \ {c} :
                  /\ (st[d] = "changed_wait" /\ cur[d] # txVer) => ENABLED SendWake(d)
                  /\ st[d] = "changed" => ENABLED SendChanged(d)
                  /\ st[d] = "borrow" => ENABLED SendBorrow(d)
                  /\ st[d] \in {"write", "write_wait"} => ENABLED SendWrite(d, "ok")

\* C8 witness: a connection is still stalled writing the first snapshot
\* while the second was published and written to the other connection.
OthersProgressDuringStall ==
    \E c, d \in Conns :
        /\ c # d
        /\ st[c] = "write_wait" /\ msg[c].seq = 1
        /\ txVer = 2 /\ lastW[d] = 2

\* A step by which a loop of c ends or websocket() of c moves on from select!.
Closing(c) ==
    \/ st[c] \notin Stopped /\ st'[c] \in Stopped
    \/ rt[c] \notin Stopped /\ rt'[c] \in Stopped
    \/ gw[c] \in {"select", "lock_dereg", "dereg"} /\ gw'[c] # gw[c]

\* The state of connection d.
ConnState(d) == <<gw[d], st[d], rt[d], cur[d], msg[d], abortReq[d], lastW[d], subVer[d], nReg[d], nDereg[d]>>

\* C9: the termination, cancellation and deregistration of a connection
\* change nothing of another connection, of the publisher or of the
\* channel; the registry changes by -1 at the decrement and not otherwise,
\* and the lock only passes between free and that connection.
ConnectionScopedCancellation ==
    [][\A c \in Conns : Closing(c) =>
          /\ \A d \in Conns \ {c} : ConnState(d)' = ConnState(d)
          /\ UNCHANGED <<pubVars, chanVars>>
          /\ clients_count' = IF gw[c] = "dereg" /\ gw'[c] = "closed"
                                 THEN clients_count - 1 ELSE clients_count
          /\ lock' = lock \/ {lock, lock'} = {Free, ConnOwner(c)}]_vars

\* C9 witness: one connection has closed while the other is still served.
ClosedBesideActive ==
    \E c, d \in Conns :
        /\ gw[c] = "closed" /\ rt[c] = "aborted"
        /\ gw[d] = "select" /\ st[d] = "write" /\ rt[d] = "read_wait"
        /\ clients_count = 1

\* C10: a failed probe changes nothing but is_up; the snapshot sent in that
\* cycle has is_up false and the clients_count read in that cycle, the
\* registry is untouched, the publisher goes on to its sleep and from there
\* to the next cycle, and never stops.
HealthFlagIndependence ==
    /\ [][/\ PubProbe(FALSE) => (pubPc' = "lock" /\ ~is_up' /\ clients_count' = clients_count)
          /\ PubRead => (resp' = clients_count /\ is_up' = is_up /\ clients_count' = clients_count)
          /\ (PubSend /\ ~is_up) =>
                /\ chanVal' = [seq |-> txVer + 1, clients_count |-> resp, is_up |-> FALSE]
                /\ clients_count' = clients_count
                /\ pubPc' = "sleep"]_vars
    /\ [](pubPc # "stopped")
    /\ []((pubPc = "sleep" /\ txVer < MaxPublishes) => ENABLED PubSleep)

\* C10 witness: the first cycle's probe failed with one client connected,
\* its snapshot was sent and the publisher is probing in its second cycle.
NextCycleAfterFailedProbe ==
    /\ chanVal = [seq |-> 1, clients_count |-> 1, is_up |-> FALSE]
    /\ clients_count = 1
    /\ pubPc = "probe"

\* C11 (as claimed): every send of the publisher, the first one included,
\* comes after a sleep of the same cycle.
SleepBeforeEveryPublish ==
    [][PubSend => slept]_vars

\* The order of the publisher's positions within its loop.
CycleSteps ==
    {<<"probe", "lock">>, <<"lock", "read">>, <<"read", "send">>,
     <<"send", "sleep">>, <<"sleep", "probe">>}

\* C11 (amended): the publisher probes, then reads the count, then sends,
\* then sleeps; the first send comes after no sleep and every later send
\* after the sleep that followed the send before it.
ProbeReadSendSleep ==
    /\ [][pubPc' # pubPc => <<pubPc, pubPc'>> \in CycleSteps]_vars
    /\ [][PubSend => (slept <=> txVer >= 1)]_vars

\* C11 witness: the publisher is about to send for the second time, its
\* sleep after the first send having elapsed.
SecondSendAfterSleep ==
    pubPc = "send" /\ txVer = 1 /\ slept

\* Whether connection c's send_task has been spawned and has not ended.
SendAlive(c) == st[c] \in SendSuspended \cup SendRunning

\* C12: once snapshot v is published, a subscriber whose send_task is alive
\* eventually writes snapshot v or a later one, unless its task ends first.
EventualDelivery ==
    \A c \in Conns : \A v \in 1..MaxPublishes :
        (txVer >= v /\ SendAlive(c)) ~> (lastW[c] >= v \/ ~SendAlive(c))

\* C12 witness: a live subscriber has written the latest of several snapshots.
WroteLatestSnapshot ==
    \E c \in Conns : SendAlive(c) /\ txVer = MaxPublishes /\ lastW[c] = txVer

\* The publisher has yet to read the count for a snapshot it will send.
CountReadAhead ==
    txVer < MaxPublishes /\ pubPc \in {"sleep", "probe", "lock", "read"}

ExitsOnlyOnClosedChannel ==
    [][pubPc' = "stopped" /\ pubPc # "stopped" => pubPc = "send" /\ RxCount = 0]_vars

\* C14 witness: the publisher goes on to its next cycle after a failed probe
\* whose snapshot counted zero clients, a connection having closed.
RunningAfterEveryOtherEvent ==
    /\ pubPc = "probe"
    /\ txVer >= 1
    /\ ~chanVal.is_up
    /\ chanVal.clients_count = 0
    /\ \E c \in Conns : gw[c] = "closed"

\* C15: with the sender gone, a send_task's next rx.changed() returns Err
\* and ends the task, and every open connection goes on to abort its
\* recv_task, decrement and close.
ClosedChannelEndsConnections ==
    /\ [][\A c \in Conns : pubPc = "stopped" /\ SendChanged(c) => st'[c] = "done"]_vars
    /\ \A c \in Conns :
          (pubPc = "stopped" /\ c \in Registered)
             ~> (gw[c] = "closed" /\ c \notin Registered /\ st[c] \in Stopped)
    /\ [](\A c \in Conns : gw[c] = "closed" /\ st[c] = "done"
              => rt[c] \in Stopped \/ abortReq[c] = "recv")

\* C15 witness: a connection has closed because its send_task found the
\* channel closed, its recv_task having been aborted while the client was silent.
ClosedOnClosedChannel ==
    \E c \in Conns :
        /\ pubPc = "stopped"
        /\ gw[c] = "closed"
        /\ st[c] = "done"
        /\ rt[c] = "aborted"
        /\ clients_count = 0

\* Some task is waiting for the lock.
LockRequested ==
    pubPc = "lock" \/ \E c \in Conns : gw[c] \in {"lock_reg", "lock_dereg"}

\* C16: the lock is held only within a critical section that has no await,
\* which its holder can always leave; so a request is never blocked for
\* good, and every request is granted.
LockHeldBriefly ==
    /\ [](lock = PubOwner => pubPc = "read" /\ ENABLED PubRead)
    /\ [](\A c \in Conns : lock = ConnOwner(c) =>
              /\ gw[c] \in {"reg", "dereg"}
              /\ ENABLED (Register(c) \/ Deregister(c)))
    /\ [](pubPc = "read" => lock = PubOwner)
    /\ [](\A c \in Conns : gw[c] \in {"reg", "dereg"} => lock = ConnOwner(c))
    /\ [](LockRequested => ENABLED StableNext)
    /\ (pubPc = "lock") ~> (pubPc = "read")
    /\ \A c \in Conns :
          /\ (gw[c] = "lock_reg") ~> (gw[c] = "reg")
          /\ (gw[c] = "lock_dereg") ~> (gw[c] = "dereg")

\* C16 witness: the publisher and a connection both wait for the lock that
\* another connection holds.
LockContended ==
    \E c, d \in Conns :
        /\ c # d
        /\ lock = ConnOwner(c)
        /\ pubPc = "lock"
        /\ gw[d] \in {"lock_reg", "lock_dereg"}

\* C17 (as claimed): once a connection is closed neither of its tasks is
\* at a position from which it can still step.
NoStepAfterClosed ==
    \A c \in Conns : gw[c] = "closed" => st[c] \in Stopped /\ rt[c] \in Stopped

\* C17 (amended): once a connection is closed each of its tasks has ended
\* or is inside a poll with its abort requested, and never suspends again;
\* a task that was suspended when it was aborted takes no further step.
NoWaitAfterClosed ==
    /\ [](\A c \in Conns : gw[c] = "closed" =>
              /\ st[c] \in Stopped \/ (st[c] \in SendRunning /\ abortReq[c] = "send")
              /\ rt[c] \in Stopped \/ (rt[c] \in RecvRunning /\ abortReq[c] = "recv"))
    /\ [][\A c \in Conns : gw[c] = "closed" =>
              /\ st'[c] \notin SendSuspended
              /\ rt'[c] \notin RecvSuspended
              /\ st[c] \in Stopped => st'[c] = st[c]
              /\ rt[c] \in Stopped => rt'[c] = rt[c]]_vars

\* C17 witness: a connection has closed and decremented while its aborted
\* send_task is still inside the poll of a write.
WritingAfterClosed ==
    \E c \in Conns :
        /\ gw[c] = "closed"
        /\ nDereg[c] = 1
        /\ st[c] = "write"
        /\ abortReq[c] = "send"

\* C18: the channel's initial value "{}" is never written to a client: a
\* send_task writes only what the publisher has sent.
PlaceholderNeverWritten ==
    /\ [](chanVal = Placeholder <=> txVer = InitialVersion)
    /\ [](\A c \in Conns : st[c] \in {"write", "write_wait"} =>
              msg[c] # Placeholder /\ msg[c].seq \in 1..txVer)
    /\ [][\A c \in Conns : SendWrite(c, "ok") => msg[c] # Placeholder]_vars

\* C18 witness: a subscriber waits on the channel that still holds the
\* initial value and has written nothing.
WaitingOnPlaceholder ==
    \E c \in Conns :
        /\ gw[c] = "select"
        /\ st[c] = "changed_wait"
        /\ chanVal = Placeholder
        /\ lastW[c] = 0

\* C19: the channel has a receiver in every reachable state, so no send of
\* the publisher fails and the publisher never leaves its loop.
ReceiverAlwaysExists ==
    /\ [](RxCount >= 1 /\ pubPc # "stopped")
    /\ [][PubSend => txVer' = txVer + 1 /\ pubPc' = "sleep"]_vars

\* C19 witness: the publisher is about to send when every connection has
\* closed and no send_task is left.
SendWithoutClients ==
    /\ pubPc = "send"
    /\ txVer >= 1
    /\ clients_count = 0
    /\ \A c \in Conns : gw[c] = "closed" /\ st[c] \in Stopped

\* C20 (as claimed): every snapshot written to a connected client counts at
\* least one client.
WrittenCountAtLeastOne ==
    [][\A c \in Conns : gw[c] = "select" /\ SendWrite(c, "ok")
           => msg[c].clients_count >= 1]_vars

\* Connections that have registered so far.
EverRegistered == {c \in Conns : nReg[c] >= 1}

\* C20 (amended): a snapshot written to a client is one the publisher sent,
\* and its clients_count is a value the registry held when the publisher
\* read it: at least 0 and at most the number of connections registered so far.
WrittenCountIsARegistryValue ==
    /\ [](chanVal.clients_count \in 0..Cardinality(EverRegistered))
    /\ [][\A c \in Conns : SendWrite(c, "ok") =>
              /\ msg[c].seq \in 1..txVer
              /\ msg[c].clients_count \in 0..Cardinality(EverRegistered)]_vars

\* C20 witness: a connected, registered client is being written a snapshot
\* whose clients_count is 0.
WritingZeroCount ==
    \E c \in Conns :
        /\ gw[c] = "select"
        /\ c \in Registered
        /\ st[c] = "write"
        /\ msg[c].seq >= 1
        /\ msg[c].clients_count = 0

====
